---- MODULE Spec2Model ----
(***************************************************************************)
(* The vote front-end (vote/app.py) and its trace-context provider         *)
(* (vote/tracing_setup.py).                                                *)
(*                                                                         *)
(* Strings that the code builds character by character (hex identities,    *)
(* traceparent tokens) are sequences of one-character strings.  A random   *)
(* draw of k bits is its big-endian sequence of k/4 nibbles (0..15), so    *)
(* that 64- and 128-bit values keep their width.                           *)
(***************************************************************************)
EXTENDS Integers, Sequences, FiniteSets, TLC

\* ------------------------------------------------------------------ bounds
\* Requests that arrive in one behaviour.
MaxRequests == 2

\* --------------------------------------------------------- program constants
IdBits == 64
TraceIdBits == 128
SpanIdBits == 64
TraceIdWidth == 32
SpanIdWidth == 16

\* Python's None, and a local not yet assigned; sequences, like the strings they
\* stand in for
None == <<"None">>
Unset == <<"Unset">>

option_a == "Cats"
option_b == "Dogs"

\* ------------------------------------------------------------ hex and draws
HexChars == <<"0","1","2","3","4","5","6","7","8","9","a","b","c","d","e","f">>

\* The low nibbles of the modelled draws (the high ones are zero): 0 and 0xab;
\* the all-ones word is drawn too.
DrawLows == {<<>>, <<10, 11>>}

Zeros(n) == [i \in 1..n |-> 0]

\* random.getrandbits(bits): the draws the model enumerates
getrandbits(bits) ==
    LET w == bits \div 4
    IN  {Zeros(w - Len(low)) \o low : low \in DrawLows}
        \cup {[i \in 1..w |-> 15]}

RECURSIVE StripZeros(_)
StripZeros(word) ==
    IF word = <<>> THEN <<>>
    ELSE IF Head(word) = 0 THEN StripZeros(Tail(word))
    ELSE word

\* hex(n): "0x", then the digits of n without leading zeros ("0x0" for 0)
hex(word) ==
    LET sig == StripZeros(word)
    IN  <<"0", "x">> \o (IF sig = <<>> THEN <<"0">>
                         ELSE [i \in 1..Len(sig) |-> HexChars[sig[i] + 1]])

\* s[2:-1]
SliceFrom2ToLast(s) == SubSeq(s, 3, Len(s) - 1)

\* s[2:]
SliceFrom2(s) == SubSeq(s, 3, Len(s))

\* s.zfill(width)
zfill(s, width) ==
    IF Len(s) >= width THEN s ELSE [i \in 1..(width - Len(s)) |-> "0"] \o s

\* voter_id = hex(random.getrandbits(64))[2:-1]
NewVoterId(draw) == SliceFrom2ToLast(hex(draw))


\* --------------------------------------------------------------- the state
VARIABLES
    queue,        \* the Redis list 'votes', head first
    redisUp,      \* whether the Redis server answers
    req,          \* per worker: the request it handles and the handler's locals
    arrived,      \* requests received so far
    votesCast,    \* history: the responses that reported a vote as cast
    tpc,          \* get_current_traceparent: position in the method
    carrier,      \* get_current_traceparent: the header the propagator injected
    trace_id,     \* get_current_traceparent: local trace_id
    span_id,      \* get_current_traceparent: local span_id
    w3c_header,   \* get_current_traceparent: local w3c_header
    returned      \* get_current_traceparent: the value returned

webVars == <<queue, redisUp, req, arrived, votesCast>>
traceVars == <<tpc, carrier, trace_id, span_id, w3c_header, returned>>
vars == <<queue, redisUp, req, arrived, votesCast,
          tpc, carrier, trace_id, span_id, w3c_header, returned>>

\* The worker threads (app.run(..., threaded=True)): two, the requests that can
\* be in their handlers at the same time.
Slots == {1, 2}

\* --------------------------------------------- tracing_setup.TracingSetup
\* f"00-{trace_id}-{span_id}-01"
FormatTraceparent(tid, sid) ==
    <<"0", "0", "-">> \o tid \o <<"-">> \o sid \o <<"-", "0", "1">>

\* trace_id = hex(random.getrandbits(128))[2:].zfill(32)
FallbackTraceId(draw) == zfill(SliceFrom2(hex(draw)), TraceIdWidth)

\* span_id = hex(random.getrandbits(64))[2:].zfill(16)
FallbackSpanId(draw) == zfill(SliceFrom2(hex(draw)), SpanIdWidth)

ZeroSpanSuffix == <<"-">> \o [i \in 1..SpanIdWidth |-> "0"] \o <<"-", "0", "1">>

\* w3c_header.endswith("-0000000000000000-01")
EndsWithZeroSpan(h) ==
    /\ Len(h) >= Len(ZeroSpanSuffix)
    /\ SubSeq(h, Len(h) - Len(ZeroSpanSuffix) + 1, Len(h)) = ZeroSpanSuffix

\* not w3c_header or w3c_header.endswith("-0000000000000000-01")
NeedsFallback(h) == h = None \/ h = <<>> \/ EndsWithZeroSpan(h)

\* What propagator.inject(carrier) leaves under "traceparent": nothing when no
\* span is current, else the header of the current span context; the header
\* with the all-zero span id is the one the method itself tests for.
AmbientIds(bits, width) ==
    {zfill(SliceFrom2(hex(d)), width) : d \in getrandbits(bits) \ {Zeros(bits \div 4)}}

AmbientHeaders ==
    {None}
    \cup {FormatTraceparent(t, s) : t \in AmbientIds(TraceIdBits, TraceIdWidth),
                                    s \in AmbientIds(SpanIdBits, SpanIdWidth)}
    \cup {FormatTraceparent(t, [i \in 1..SpanIdWidth |-> "0"]) :
              t \in AmbientIds(TraceIdBits, TraceIdWidth)}

TP_Inject ==
    /\ tpc = "call"
    /\ \E h \in AmbientHeaders :
          /\ carrier' = h
          /\ w3c_header' = h
    /\ tpc' = "check"
    /\ UNCHANGED <<trace_id, span_id, returned>>
    /\ UNCHANGED webVars

TP_UseAmbient ==
    /\ tpc = "check"
    /\ ~NeedsFallback(w3c_header)
    /\ tpc' = "return"
    /\ UNCHANGED <<carrier, trace_id, span_id, w3c_header, returned>>
    /\ UNCHANGED webVars

TP_Fallback ==
    /\ tpc = "check"
    /\ NeedsFallback(w3c_header)
    /\ tpc' = "gen_trace_id"
    /\ UNCHANGED <<carrier, trace_id, span_id, w3c_header, returned>>
    /\ UNCHANGED webVars

TP_GenTraceId ==
    /\ tpc = "gen_trace_id"
    /\ \E d \in getrandbits(TraceIdBits) : trace_id' = FallbackTraceId(d)
    /\ tpc' = "gen_span_id"
    /\ UNCHANGED <<carrier, span_id, w3c_header, returned>>
    /\ UNCHANGED webVars

TP_GenSpanId ==
    /\ tpc = "gen_span_id"
    /\ \E d \in getrandbits(SpanIdBits) : span_id' = FallbackSpanId(d)
    /\ tpc' = "format"
    /\ UNCHANGED <<carrier, trace_id, w3c_header, returned>>
    /\ UNCHANGED webVars

TP_Format ==
    /\ tpc = "format"
    /\ w3c_header' = FormatTraceparent(trace_id, span_id)
    /\ tpc' = "return"
    /\ UNCHANGED <<carrier, trace_id, span_id, returned>>
    /\ UNCHANGED webVars

TP_Return ==
    /\ tpc = "return"
    /\ returned' = w3c_header
    /\ tpc' = "done"
    /\ UNCHANGED <<carrier, trace_id, span_id, w3c_header>>
    /\ UNCHANGED webVars

\* the next call of the method starts with fresh locals
TP_Call ==
    /\ tpc = "done"
    /\ tpc' = "call"
    /\ carrier' = Unset
    /\ trace_id' = Unset
    /\ span_id' = Unset
    /\ w3c_header' = Unset
    /\ returned' = Unset
    /\ UNCHANGED webVars

TraceInit ==
    /\ tpc = "call"
    /\ carrier = Unset
    /\ trace_id = Unset
    /\ span_id = Unset
    /\ w3c_header = Unset
    /\ returned = Unset


\* ------------------------------------------------------------------ app.py
\* from tracing_setup import get_current_traceparent, start_trace_span:
\* tracing_setup defines the two names only as methods of class TracingSetup,
\* so the import raises ImportError and app.py runs with the placeholders of
\* its except branch: a span that is None and
\*     def get_current_traceparent(): return None
get_current_traceparent == None

Cookies == {None, <<>>, <<"c", "0", "f", "f", "e", "e">>}
Votes == {<<"a">>, <<"b">>}
\* A request body: absent or unparsable, parsable without a 'vote' key, or
\* carrying a vote.
NoBody == <<"nobody">>
NoVoteKey == <<"novote">>
Bodies == {NoBody, NoVoteKey} \cup Votes

Idle ==
    [pc |-> "idle", route |-> "", method |-> "", cookie |-> None,
     body |-> NoBody, voter_id |-> Unset, vote |-> Unset, traceparent |-> Unset,
     calls |-> 0, probe |-> "", err |-> "", status |-> 0, resp |-> [kind |-> "none"],
     setCookie |-> None, escaped |-> FALSE, pos |-> 0]

\* variant: the cookie is ignored and every request gets a new identity
ResolveVoterIdAlwaysNew(cookie, draw) == NewVoterId(draw)

\* voter_id = request.cookies.get('voter_id'); if not voter_id: voter_id = hex(...)[2:-1]
ResolveVoterId(cookie, draw) ==
    IF cookie = None \/ cookie = <<>> THEN NewVoterId(draw) ELSE cookie

\* json.dumps({'voter_id': voter_id, 'vote': vote, 'traceparent': traceparent})
VoteRecord(voter_id, vote, traceparent) ==
    [voter_id |-> voter_id, vote |-> vote, traceparent |-> traceparent]

\* variant: LPUSH: the record goes to the head of the list
lpush(q, data) == <<data>> \o q

\* variant: a set-like sink: a record equal to one already queued is dropped
rpushUnique(q, data) == IF \E i \in 1..Len(q) : q[i] = data THEN q ELSE Append(q, data)

\* redis.rpush('votes', data)
rpush(q, data) == Append(q, data)

\* jsonify(success=True, message="Vote cast")
VoteCastResponse == [kind |-> "json", success |-> TRUE, message |-> "Vote cast"]

\* variant: the exception text is sent to the caller
ErrorResponseWithDetail(err) == [kind |-> "json", success |-> FALSE, error |-> err]

\* jsonify(success=False, error="Internal Server Error")
ErrorResponse(err) == [kind |-> "json", success |-> FALSE, error |-> "Internal Server Error"]

\* variant: the second option is rendered from the first
RenderPageOneOption(vote) ==
    [kind |-> "html", option_a |-> option_a, option_b |-> option_a, vote |-> vote]

\* render_template('index.html', option_a=..., option_b=..., hostname=..., vote=vote)
RenderPage(vote) ==
    [kind |-> "html", option_a |-> option_a, option_b |-> option_b, vote |-> vote]

\* variant: the probe's failure is swallowed
HealthResponseAlwaysOk(pingOk) == [status |-> 200, resp |-> [kind |-> "text", text |-> "OK"]]

\* return "OK", 200 / return "Unhealthy", 500
HealthResponse(pingOk) ==
    IF pingOk THEN [status |-> 200, resp |-> [kind |-> "text", text |-> "OK"]]
    ELSE [status |-> 500, resp |-> [kind |-> "text", text |-> "Unhealthy"]]

\* The routes Flask dispatches to the three handlers, with their methods.
Endpoints ==
    {<<"/", "GET">>, <<"/", "POST">>, <<"/api/vote", "POST">>, <<"/health", "GET">>}

\* A request reaches a free worker thread.  A GET carries no body, /health
\* reads no cookie, and for a form posted to / NoBody stands for every form
\* without a 'vote' field.
Arrive(s) ==
    /\ req[s].pc = "idle"
    /\ arrived < MaxRequests
    /\ \E e \in Endpoints, c \in Cookies, b \in Bodies :
          /\ e[2] = "GET" => b = NoBody
          /\ e[1] = "/health" => c = None
          /\ e[1] = "/" => b # NoVoteKey
          /\ req' = [req EXCEPT ![s] =
                        [Idle EXCEPT !.pc = "start",
                                     !.route = e[1], !.method = e[2],
                                     !.cookie = c, !.body = b]]
    /\ arrived' = arrived + 1
    /\ UNCHANGED <<queue, redisUp, votesCast>>
    /\ UNCHANGED traceVars

\* health(): get_redis(), one redis.ping(), and the answer
Health(s) ==
    /\ req[s].pc = "start"
    /\ req[s].route = "/health"
    /\ LET r == HealthResponse(redisUp)
       IN  req' = [req EXCEPT ![s].pc = "done", ![s].calls = @ + 1,
                              ![s].probe = IF redisUp THEN "ok" ELSE "failed",
                              ![s].status = r.status, ![s].resp = r.resp]
    /\ UNCHANGED <<queue, redisUp, arrived, votesCast>>
    /\ UNCHANGED traceVars

\* cast_vote_api() and hello(): the first two statements
ResolveIdentity(s) ==
    /\ req[s].pc = "start"
    /\ req[s].route \in {"/", "/api/vote"}
    /\ \E d \in getrandbits(IdBits) :
          req' = [req EXCEPT ![s].voter_id = ResolveVoterId(req[s].cookie, d),
                             ![s].pc = CASE req[s].route = "/api/vote" -> "json"
                                         [] req[s].method = "POST" -> "form"
                                         [] OTHER -> "render"]
    /\ UNCHANGED <<queue, redisUp, arrived, votesCast>>
    /\ UNCHANGED traceVars

\* cast_vote_api(): content = request.json; vote = content['vote']
ReadJson(s) ==
    /\ req[s].pc = "json"
    /\ \/ /\ req[s].body \in Votes
          /\ req' = [req EXCEPT ![s].vote = req[s].body, ![s].pc = "trace"]
       \/ /\ req[s].body \notin Votes
          /\ req' = [req EXCEPT ![s].pc = "except",
                                ![s].err = IF req[s].body = NoBody
                                           THEN "request.json" ELSE "KeyError: 'vote'"]
    /\ UNCHANGED <<queue, redisUp, arrived, votesCast>>
    /\ UNCHANGED traceVars

\* hello(): redis = get_redis(); vote = request.form['vote'], outside any try
ReadForm(s) ==
    /\ req[s].pc = "form"
    /\ \/ /\ req[s].body \in Votes
          /\ req' = [req EXCEPT ![s].vote = req[s].body, ![s].pc = "trace"]
       \/ /\ req[s].body \notin Votes
          /\ req' = [req EXCEPT ![s].pc = "done", ![s].escaped = TRUE,
                                ![s].err = "BadRequestKeyError: 'vote'"]
    /\ UNCHANGED <<queue, redisUp, arrived, votesCast>>
    /\ UNCHANGED traceVars

\* traceparent = get_current_traceparent()
GetTraceparent(s) ==
    /\ req[s].pc = "trace"
    /\ req' = [req EXCEPT ![s].traceparent = get_current_traceparent, ![s].pc = "push"]
    /\ UNCHANGED <<queue, redisUp, arrived, votesCast>>
    /\ UNCHANGED traceVars

\* variant: the vote is kept in a module-level variable that the handlers of
\* all threads assign, so a record can carry the other request's vote
PushSharedVote(s) ==
    /\ req[s].pc = "push"
    /\ redisUp
    /\ LET parsed == {u \in Slots \ {s} : req[u].vote # Unset}
           v == IF parsed = {} THEN req[s].vote ELSE req[CHOOSE u \in parsed : TRUE].vote
       IN  queue' = Append(queue, [voter_id |-> req[s].voter_id, vote |-> v,
                                   traceparent |-> req[s].traceparent])
    /\ req' = [req EXCEPT ![s].calls = @ + 1, ![s].pos = Len(queue'),
                          ![s].pc = IF req[s].route = "/api/vote"
                                    THEN "respond" ELSE "render"]
    /\ UNCHANGED <<redisUp, arrived, votesCast>>
    /\ UNCHANGED <<tpc, carrier, trace_id, span_id, w3c_header, returned>>

\* data = json.dumps(...); redis.rpush('votes', data): the push appends and
\* returns, or raises and leaves the list as it was
Push(s) ==
    /\ req[s].pc = "push"
    /\ \/ /\ redisUp
          /\ queue' = rpush(queue, VoteRecord(req[s].voter_id, req[s].vote,
                                              req[s].traceparent))
          /\ req' = [req EXCEPT ![s].calls = @ + 1, ![s].pos = Len(queue'),
                                ![s].pc = IF req[s].route = "/api/vote"
                                          THEN "respond" ELSE "render"]
       \/ /\ ~redisUp
          /\ req[s].route = "/api/vote"
          /\ req' = [req EXCEPT ![s].calls = @ + 1, ![s].pc = "except",
                                ![s].err = "ConnectionError"]
          /\ UNCHANGED queue
       \/ /\ ~redisUp
          /\ req[s].route = "/"
          /\ req' = [req EXCEPT ![s].calls = @ + 1, ![s].pc = "done",
                                ![s].escaped = TRUE, ![s].err = "ConnectionError"]
          /\ UNCHANGED queue
    /\ UNCHANGED <<redisUp, arrived, votesCast>>
    /\ UNCHANGED traceVars

\* resp = jsonify(success=True, ...); resp.set_cookie('voter_id', voter_id); return resp, 200
RespondOk(s) ==
    /\ req[s].pc = "respond"
    /\ req' = [req EXCEPT ![s].pc = "done", ![s].status = 200,
                          ![s].resp = VoteCastResponse,
                          ![s].setCookie = req[s].voter_id]
    /\ votesCast' = votesCast + 1
    /\ UNCHANGED <<queue, redisUp, arrived>>
    /\ UNCHANGED traceVars

\* except Exception as e: ...; return jsonify(success=False, ...), 500
RespondError(s) ==
    /\ req[s].pc = "except"
    /\ req' = [req EXCEPT ![s].pc = "done", ![s].status = 500,
                          ![s].resp = ErrorResponse(req[s].err)]
    /\ UNCHANGED <<queue, redisUp, arrived, votesCast>>
    /\ UNCHANGED traceVars

\* hello(): resp = make_response(render_template(...)); resp.set_cookie(...); return resp
Render(s) ==
    /\ req[s].pc = "render"
    /\ req' = [req EXCEPT ![s].pc = "done", ![s].status = 200,
                          ![s].resp = RenderPage(IF req[s].vote = Unset
                                                 THEN None ELSE req[s].vote),
                          ![s].setCookie = req[s].voter_id]
    /\ votesCast' = IF req[s].vote = Unset THEN votesCast ELSE votesCast + 1
    /\ UNCHANGED <<queue, redisUp, arrived>>
    /\ UNCHANGED traceVars

\* The response has gone out and the worker thread is free again.
Release(s) ==
    /\ req[s].pc = "done"
    /\ req' = [req EXCEPT ![s] = Idle]
    /\ UNCHANGED <<queue, redisUp, arrived, votesCast>>
    /\ UNCHANGED traceVars

\* The Redis server goes away or comes back.
RedisChange ==
    /\ redisUp' = ~redisUp
    /\ UNCHANGED <<queue, req, arrived, votesCast>>
    /\ UNCHANGED traceVars

WebInit ==
    /\ queue = <<>>
    /\ redisUp \in BOOLEAN
    /\ req = [s \in Slots |-> Idle]
    /\ arrived = 0
    /\ votesCast = 0

Init == WebInit /\ TraceInit

Next ==
    \/ \E s \in Slots : Arrive(s)
    \/ \E s \in Slots : Health(s)
    \/ \E s \in Slots : ResolveIdentity(s)
    \/ \E s \in Slots : ReadJson(s)
    \/ \E s \in Slots : ReadForm(s)
    \/ \E s \in Slots : GetTraceparent(s)
    \/ \E s \in Slots : Push(s)
    \/ \E s \in Slots : RespondOk(s)
    \/ \E s \in Slots : RespondError(s)
    \/ \E s \in Slots : Render(s)
    \/ \E s \in Slots : Release(s)
    \/ RedisChange

Spec == Init /\ [][Next]_vars

\* get_current_traceparent() of TracingSetup, called over and over
TraceNext ==
    \/ TP_Inject
    \/ TP_UseAmbient
    \/ TP_Fallback
    \/ TP_GenTraceId
    \/ TP_GenSpanId
    \/ TP_Format
    \/ TP_Return
    \/ TP_Call

TraceSpec == Init /\ [][TraceNext]_vars


\* ------------------------------------------------------------ vocabulary
HexSet == {HexChars[i] : i \in 1..Len(HexChars)}
AllHex(s) == \A i \in 1..Len(s) : s[i] \in HexSet
AllZero(s) == \A i \in 1..Len(s) : s[i] = "0"

\* 00-<32 lowercase hex>-<16 lowercase hex>-01
WellFormedToken(t) ==
    /\ Len(t) = 3 + TraceIdWidth + 1 + SpanIdWidth + 3
    /\ SubSeq(t, 1, 3) = <<"0", "0", "-">>
    /\ AllHex(SubSeq(t, 4, 3 + TraceIdWidth))
    /\ t[4 + TraceIdWidth] = "-"
    /\ AllHex(SubSeq(t, 5 + TraceIdWidth, 4 + TraceIdWidth + SpanIdWidth))
    /\ SubSeq(t, 5 + TraceIdWidth + SpanIdWidth, 7 + TraceIdWidth + SpanIdWidth)
          = <<"-", "0", "1">>

TokenTraceId(t) == SubSeq(t, 4, 3 + TraceIdWidth)
TokenSpanId(t) == SubSeq(t, 5 + TraceIdWidth, 4 + TraceIdWidth + SpanIdWidth)

IsPrefix(a, b) == Len(a) <= Len(b) /\ SubSeq(b, 1, Len(a)) = a

HasCookie(s) == req[s].cookie # None /\ req[s].cookie # <<>>
Ended(s) == req[s].pc = "done"
VoteRoute(s) == req[s].route \in {"/", "/api/vote"}
VoteCast(s) ==
    /\ Ended(s)
    /\ req[s].route = "/api/vote"
    /\ req[s].status = 200
    /\ req[s].resp = VoteCastResponse
GenericError == [kind |-> "json", success |-> FALSE, error |-> "Internal Server Error"]

\* The records in the queue are those of the votes reported as cast and of the
\* handlers that have pushed and not answered yet.
PushedUnanswered == {s \in Slots : req[s].pos > 0 /\ req[s].pc \in {"respond", "render"}}
RecordsAccounted == Len(queue) = votesCast + Cardinality(PushedUnanswered)

\* ------------------------------------------------------------------ claims

\* C1: every POST /api/vote answered 200 "Vote cast" has pushed exactly one
\* record, which holds the vote of the request body, the identity resolved for
\* the request and a trace context that is null or a well-formed token; the
\* queue holds one record per vote cast, equal submissions included.
C1_VoteCastAppendsOneRecord ==
    /\ RecordsAccounted
    /\ \A s \in Slots :
          VoteCast(s) =>
             /\ req[s].calls = 1
             /\ req[s].pos \in 1..Len(queue)
             /\ LET rec == queue[req[s].pos]
                IN  /\ DOMAIN rec = {"voter_id", "vote", "traceparent"}
                    /\ rec.vote = req[s].body
                    /\ rec.voter_id = req[s].voter_id
                    /\ (rec.traceparent = None \/ WellFormedToken(rec.traceparent))

\* two equal submissions of one voter, both answered "Vote cast", two records
C1_Witness ==
    /\ Len(queue) = 2
    /\ queue[1] = queue[2]
    /\ votesCast = 2
    /\ \E s \in Slots : VoteCast(s) /\ HasCookie(s) /\ req[s].pos = 2

\* C2: a POST /api/vote fails exactly when the vote cannot be read from the
\* body or the push fails; it is then answered 500 with the generic body, which
\* carries no error detail, and it has put no record in the queue.
C2_FailedVoteLeavesNoEntry ==
    /\ RecordsAccounted
    /\ \A s \in Slots :
          (Ended(s) /\ req[s].route = "/api/vote") =>
             /\ (req[s].status = 500)
                   <=> (req[s].body \notin Votes \/ (req[s].calls = 1 /\ req[s].pos = 0))
             /\ (req[s].status = 500) <=> (req[s].err # "")
             /\ req[s].status = 500 =>
                   /\ req[s].resp = GenericError
                   /\ req[s].resp.error # req[s].err
                   /\ req[s].pos = 0

\* a push that failed while the queue held a record, answered 500
C2_Witness ==
    \E s \in Slots :
       /\ Ended(s)
       /\ req[s].route = "/api/vote"
       /\ req[s].err = "ConnectionError"
       /\ req[s].status = 500
       /\ Len(queue) = 1

\* C3 as stated: every response a handler of / or /api/vote returns, for a
\* request that succeeded or failed, sets the cookie voter_id to the identity
\* resolved for the request, which is the request's cookie when it carries a
\* non-empty one.
C3_CookieOnEveryResponse ==
    \A s \in Slots :
       (Ended(s) /\ VoteRoute(s) /\ ~req[s].escaped) =>
          /\ req[s].setCookie = req[s].voter_id
          /\ HasCookie(s) => req[s].setCookie = req[s].cookie

\* C3 amended: every 200 response of / and /api/vote sets the cookie voter_id
\* to the identity resolved for the request, the request's own cookie when it
\* carries a non-empty one and a newly generated value otherwise; the 500
\* response of /api/vote sets no cookie, and neither does a request to / whose
\* handler raised.
C3_CookieOnSuccessResponses ==
    \A s \in Slots :
       (Ended(s) /\ VoteRoute(s)) =>
          IF req[s].status = 200
          THEN /\ req[s].setCookie = req[s].voter_id
               /\ HasCookie(s) => req[s].voter_id = req[s].cookie
               /\ ~HasCookie(s) =>
                     req[s].voter_id \in {NewVoterId(d) : d \in getrandbits(IdBits)}
          ELSE /\ req[s].setCookie = None
               /\ req[s].status = 500 \/ req[s].escaped

\* a 200 response echoing the request's cookie beside a 500 response without one
C3_Witness ==
    \E s, u \in Slots :
       /\ Ended(s) /\ VoteRoute(s) /\ req[s].status = 200
       /\ HasCookie(s) /\ req[s].setCookie = req[s].cookie
       /\ Ended(u) /\ req[u].route = "/api/vote" /\ req[u].status = 500
       /\ req[u].voter_id # Unset /\ req[u].setCookie = None

\* C4 as stated: whatever the 64-bit draw, a generated voter identity is a
\* non-empty lowercase hex string of one fixed length, and every record in
\* the queue has a non-empty voter_id.
C4_GeneratedIdFixedLength ==
    /\ \A s \in Slots :
          (VoteRoute(s) /\ req[s].voter_id # Unset /\ ~HasCookie(s)) =>
             /\ req[s].voter_id # <<>>
             /\ AllHex(req[s].voter_id)
             /\ Len(req[s].voter_id) = Len(NewVoterId([i \in 1..(IdBits \div 4) |-> 15]))
    /\ \A i \in 1..Len(queue) : queue[i].voter_id # <<>>

\* C5 as stated: every non-null token get_current_traceparent returns has the
\* form 00-<32 hex>-<16 hex>-01 and neither an all-zero span id nor an
\* all-zero trace id, whatever the draws.
C5_TokenNeverZero ==
    (returned # Unset /\ returned # None) =>
       /\ WellFormedToken(returned)
       /\ ~AllZero(TokenSpanId(returned))
       /\ ~AllZero(TokenTraceId(returned))

\* C6: GET /health pings the sink exactly once, answers 200 "OK" if and only
\* if that ping succeeded and 500 "Unhealthy" otherwise, and no step of it
\* changes the queue.
C6_HealthProbesOnce ==
    /\ [](\A s \in Slots :
             (Ended(s) /\ req[s].route = "/health") =>
                /\ req[s].calls = 1
                /\ req[s].pos = 0
                /\ req[s].probe \in {"ok", "failed"}
                /\ (req[s].status = 200) <=> (req[s].probe = "ok")
                /\ req[s].probe = "ok" => req[s].resp = [kind |-> "text", text |-> "OK"]
                /\ req[s].probe = "failed" =>
                      /\ req[s].status = 500
                      /\ req[s].resp = [kind |-> "text", text |-> "Unhealthy"])
    /\ [][\A s \in Slots :
             (req[s].route = "/health" /\ req'[s] # req[s]) => queue' = queue]_vars

\* an unhealthy answer while the queue holds a record
C6_Witness ==
    \E s \in Slots :
       /\ Ended(s)
       /\ req[s].route = "/health"
       /\ req[s].probe = "failed"
       /\ req[s].status = 500
       /\ Len(queue) = 1

\* C7: every GET / is answered 200 with the page rendered from both options
\* and with the identity cookie, has not contacted the sink, reachable or not,
\* and no step of it changes the queue.
C7_GetHomeRendersPage ==
    /\ [](\A s \in Slots :
             (Ended(s) /\ req[s].route = "/" /\ req[s].method = "GET") =>
                /\ req[s].status = 200
                /\ req[s].resp.kind = "html"
                /\ req[s].resp.option_a = "Cats"
                /\ req[s].resp.option_b = "Dogs"
                /\ req[s].resp.vote = None
                /\ req[s].voter_id # Unset
                /\ req[s].setCookie = req[s].voter_id
                /\ req[s].calls = 0
                /\ req[s].pos = 0
                /\ ~req[s].escaped)
    /\ [][\A s \in Slots :
             (req[s].route = "/" /\ req[s].method = "GET" /\ req'[s] # req[s])
                => queue' = queue]_vars

\* the page served with a new identity while the sink is down
C7_Witness ==
    \E s \in Slots :
       /\ Ended(s)
       /\ req[s].route = "/" /\ req[s].method = "GET"
       /\ req[s].cookie = None
       /\ req[s].status = 200
       /\ ~redisUp

\* C8 as stated: on every route no exception leaves a handler; every failure
\* is answered by the handler itself, a POST to / included.
C8_NoExceptionEscapes ==
    \A s \in Slots :
       /\ ~req[s].escaped
       /\ Ended(s) => req[s].status \in {200, 500}

\* C9: with vote submissions running at the same time, the queue holds exactly
\* one record per submission that pushed, each at its own place and pairing
\* that request's identity with that request's vote; and in every request the
\* identity is resolved before the trace context is obtained, which is before
\* the push.
C9_ConcurrentVotesKeepOwnValues ==
    /\ RecordsAccounted
    /\ \A s \in Slots :
          /\ req[s].pos > 0 =>
                /\ req[s].pos <= Len(queue)
                /\ queue[req[s].pos].voter_id = req[s].voter_id
                /\ queue[req[s].pos].vote = req[s].body
                /\ HasCookie(s) => queue[req[s].pos].voter_id = req[s].cookie
                /\ req[s].traceparent # Unset
          /\ req[s].pc = "trace" =>
                req[s].voter_id # Unset /\ req[s].traceparent = Unset /\ req[s].pos = 0
          /\ req[s].pc = "push" =>
                req[s].voter_id # Unset /\ req[s].traceparent # Unset /\ req[s].pos = 0
          /\ req[s].traceparent # Unset => req[s].voter_id # Unset
    /\ \A s, u \in Slots :
          (s # u /\ req[s].pos > 0 /\ req[u].pos > 0) => req[s].pos # req[u].pos

\* two submissions with different votes, both pushed and neither answered yet,
\* the record of thread 2 ahead of the record of thread 1
C9_Witness ==
    /\ req[1].route = "/api/vote" /\ req[2].route = "/api/vote"
    /\ req[1].pc = "respond" /\ req[2].pc = "respond"
    /\ req[1].body # req[2].body
    /\ req[1].pos = 2 /\ req[2].pos = 1

\* the same two submissions enqueued in the other order
C9_WitnessOtherOrder ==
    /\ req[1].route = "/api/vote" /\ req[2].route = "/api/vote"
    /\ req[1].pc = "respond" /\ req[2].pc = "respond"
    /\ req[1].body # req[2].body
    /\ req[1].pos = 1 /\ req[2].pos = 2

\* C10: every step leaves the queue as it was or adds one record at its tail,
\* so no record is changed, removed or moved; the record a handler pushes lies
\* behind the records of the requests answered before.
C10_QueueAppendOnly ==
    [][/\ IsPrefix(queue, queue')
       /\ Len(queue') <= Len(queue) + 1
       /\ \A s \in Slots :
             (req[s].pos = 0 /\ req'[s].pos > 0) =>
                /\ req'[s].pos = Len(queue')
                /\ \A u \in Slots \ {s} :
                      (Ended(u) /\ req[u].pos > 0) =>
                         /\ req[u].pos < req'[s].pos
                         /\ queue'[req[u].pos] = queue[req[u].pos]]_vars

\* two different records, of a vote answered and of one pushed behind it
C10_Witness ==
    \E s, u \in Slots :
       /\ VoteCast(u) /\ req[u].pos = 1
       /\ VoteCast(s) /\ req[s].pos = 2
       /\ queue[1] # queue[2]

====
